---- MODULE Spec2Model ----
(***************************************************************************)
(* The auto-wiring container of ko_nexus (src/src/ko_nexus/containers.py   *)
(* and lifetimes.py) as a state machine.                                   *)
(*                                                                         *)
(* Python objects are records carrying their class in the field cls, so    *)
(* that an attribute access is a test of the record's domain.  Python      *)
(* dicts are association lists in insertion order.  The interpreter        *)
(* semantics modelled is that of CPython 3.12 / 3.13 (typing.override is   *)
(* imported, so 3.12 is the minimum): get_origin(X | None) is              *)
(* types.UnionType and get_origin(Optional[X]) is typing.Union.            *)
(***************************************************************************)
EXTENDS Naturals, Sequences, FiniteSets

VARIABLES
    registry,           \* Container._registry: dict[type, NamedRegistrations]
    scoped_instances,   \* ScopedStrategy._scoped_instances: dict[int, object]
    resolution_stack,   \* Container._resolution_stack: list[StackKey]
    pc,                 \* where the single caller is inside resolve / async_resolve
    frame,              \* locals of the resolve call in flight
    result,             \* what the last finished call returned or raised
    nregs,              \* register* calls made so far (bounded by MaxRegs)
    cleanup_calls,      \* the calls cleanup(instance) made so far, in order
    dispatched,         \* keys registered with a cleanup whose resolve reached
                        \* the strategy dispatch since they were registered and
                        \* since the last shutdown call
    records,            \* the live RegistrationMetadata objects a ScopedStrategy
                        \* is called with, each with id(resolved_params)
    nrecords,           \* RegistrationMetadata objects created so far
    provider,           \* the Resource under test: its constructor arguments
    resource,           \* Resource.resource
    resolved,           \* Resource._resolved
    init_calls          \* calls of the initializer of the Resource so far

container_vars ==
    <<registry, scoped_instances, resolution_stack, pc, frame, result, nregs,
      cleanup_calls, dispatched>>

strategy_vars == <<records, nrecords>>

provider_vars == <<provider, resource, resolved, init_calls>>

vars == <<container_vars, strategy_vars, provider_vars>>

---------------------------------------------------------------------------
(* Bounds and input sets                                                   *)

\* register / register_instance calls explored in one run.
MaxRegs == 2

\* The name argument: None, or a string.
NoName == "<None>"
RegNames == {NoName, "special"}
ResolveNames == {NoName, "special", "other"}

Lifetimes == {"singleton", "transient", "scoped"}

\* The classes a caller registers (each is its own implementation).
Types == {"Config", "Database", "CircularA", "CircularB", "OptionalService", "Pair"}

\* The lifetime argument explored per class: every lifetime for Config, the
\* default of the parameter (transient) for the classes that depend on others.
LifetimesOf(interface) == IF interface = "Config" THEN Lifetimes ELSE {"transient"}

\* A cleanup callback handed to register: a plain function, one that raises,
\* or a coroutine function.
Callback(name, is_coroutine, raises) ==
    [cls |-> "function", name |-> name, is_coroutine |-> is_coroutine,
     raises |-> raises]

\* The cleanup argument explored: None and the three callbacks for a singleton
\* Config, None and the plain callback for a scoped Config (the two lifetimes
\* that cache an instance), None elsewhere.
CleanupsOf(interface, lifetime) ==
    IF interface = "Config" /\ lifetime = "singleton"
    THEN {[cls |-> "NoneType"], Callback("close", FALSE, FALSE),
          Callback("close_failing", FALSE, TRUE), Callback("aclose", TRUE, FALSE)}
    ELSE IF interface = "Config" /\ lifetime = "scoped"
    THEN {[cls |-> "NoneType"], Callback("close", FALSE, FALSE)}
    ELSE {[cls |-> "NoneType"]}

\* Pre-built objects a caller hands to register_instance, and the classes they
\* are registered for.
ExtObjs == {"obj1"}
InstanceTypes == {"Config"}

---------------------------------------------------------------------------
(* Python values                                                           *)

PyNone == [cls |-> "NoneType"]

\* An object handed in by the caller.
Obj(id) == [cls |-> "object", id |-> id]

\* Truthiness of a str | None value, as if name and name or ... use it.
Truthy(name) == name # NoName /\ name # ""

\* A declared parameter type: a class, X | None or Optional[X].
Plain(t) == [kind |-> "class", target |-> t]
Pipe(t) == [kind |-> "pipe", target |-> t]
Opt(t) == [kind |-> "Optional", target |-> t]

\* One inspect.Parameter together with its entry in get_type_hints.
Param(n, hint, hasDefault) ==
    [name |-> n, hint |-> hint, has_default |-> hasDefault]

\* inspect.signature(factory.__init__) without self, per registered class; the
\* factory of register_instance is a lambda without parameters.
Params(cls) ==
    CASE cls = "lambda" -> <<>>
      [] cls = "Config" -> <<>>
      [] cls = "Database" -> <<Param("config", Plain("Config"), FALSE)>>
      [] cls = "CircularA" -> <<Param("b", Plain("CircularB"), FALSE)>>
      [] cls = "CircularB" -> <<Param("a", Plain("CircularA"), FALSE)>>
      [] cls = "OptionalService" -> <<Param("config", Pipe("Config"), FALSE)>>
      [] cls = "Pair" -> <<Param("first", Plain("Config"), FALSE),
                           Param("second", Plain("Config"), FALSE)>>

---------------------------------------------------------------------------
(* lifetimes.py: RegistrationMetadata and NamedRegistrations               *)

RegistrationMetadata(lifetime, factory, cleanup, instance, is_async) ==
    [cls |-> "RegistrationMetadata", lifetime |-> lifetime, factory |-> factory,
     cleanup |-> cleanup, instance |-> instance, is_async |-> is_async]

\* NamedRegistrations(): default None, named {}.
NamedRegistrations ==
    [cls |-> "NamedRegistrations", default |-> PyNone, named |-> <<>>]

\* dict lookups on the association list named.
NamedHasKey(named, name) == \E k \in 1..Len(named) : named[k].name = name

NamedIndex(named, name) == CHOOSE k \in 1..Len(named) : named[k].name = name

\* NamedRegistrations.get
RegsGet(regs, name) ==
    IF name = NoName THEN regs.default
    ELSE IF NamedHasKey(regs.named, name)
         THEN regs.named[NamedIndex(regs.named, name)].metadata
         ELSE PyNone

\* NamedRegistrations.has
RegsHas(regs, name) ==
    IF name = NoName THEN regs.default # PyNone
    ELSE NamedHasKey(regs.named, name)

\* NamedRegistrations.set: an existing dict key keeps its position.
RegsSet(regs, metadata, name) ==
    IF name = NoName THEN [regs EXCEPT !.default = metadata]
    ELSE IF NamedHasKey(regs.named, name)
         THEN [regs EXCEPT !.named[NamedIndex(regs.named, name)].metadata = metadata]
         ELSE [regs EXCEPT !.named =
                   Append(@, [name |-> name, metadata |-> metadata])]

---------------------------------------------------------------------------
(* Container._registry                                                     *)

\* interface in self._registry
InRegistry(reg, interface) == \E k \in 1..Len(reg) : reg[k].interface = interface

RegistryIndex(reg, interface) == CHOOSE k \in 1..Len(reg) : reg[k].interface = interface

\* self._registry[interface]
RegistryGet(reg, interface) == reg[RegistryIndex(reg, interface)].regs

\* Container._set_in_registry
SetInRegistry(reg, interface, metadata, name) ==
    IF ~InRegistry(reg, interface)
    THEN Append(reg, [interface |-> interface,
                      regs |-> RegsSet(NamedRegistrations, metadata, name)])
    ELSE [reg EXCEPT ![RegistryIndex(reg, interface)].regs =
              RegsSet(@, metadata, name)]

---------------------------------------------------------------------------
(* Exceptions and results of a call                                       *)

NoExc == [cls |-> "NoneType"]

\* f"{t.__name__}({n or 'default'})"
KeyText(key) ==
    [type |-> key[1], label |-> IF Truthy(key[2]) THEN key[2] ELSE "default"]

\* The name left out of the message.
NameStrOmitted(name) == <<>>

\* " with name {name}" if name else ""
NameStr(name) == IF Truthy(name) THEN <<" with name ", name>> ELSE <<>>

\* The lookup failing as a bare dict access would: KeyError(interface).
NotRegisteredAsKeyError(interface, name_str) ==
    [cls |-> "KeyError", msg |-> <<interface>>]

\* DiResolutionError("Interface type X{name_str} is not registered")
NotRegisteredError(interface, name_str) ==
    [cls |-> "DiResolutionError",
     msg |-> <<"Interface type ", interface>> \o name_str
               \o <<" is not registered">>]

\* DiCircularDependencyError: the keys of stack joined by " -> ", then " -> "
\* and the key found again.
CircularDependencyError(stack, interface, name) ==
    [cls |-> "DiCircularDependencyError",
     msg |-> <<"Circular dependency detected: ">>,
     chain |-> [k \in 1..Len(stack) |-> KeyText(stack[k])]
                 \o <<KeyText(<<interface, name>>)>>]

\* What Python raises for obj.attr when obj has no such attribute.
AttributeError(obj, attr) ==
    [cls |-> "AttributeError", msg |-> <<obj.cls, " object has no attribute ", attr>>]

HasAttr(obj, attr) == attr \in DOMAIN obj

Returned(op, interface, name, value) ==
    [op |-> op, status |-> "returned", interface |-> interface, name |-> name,
     exc |-> NoExc, value |-> value]

Raised(op, interface, name, exc) ==
    [op |-> op, status |-> "raised", interface |-> interface, name |-> name,
     exc |-> exc, value |-> PyNone]

Running(op, interface, name) ==
    [op |-> op, status |-> "running", interface |-> interface, name |-> name,
     exc |-> NoExc, value |-> PyNone]

NoFrame == [cls |-> "NoneType"]

ResolveOps == {"resolve", "async_resolve"}

---------------------------------------------------------------------------
\* Container.__init__
ContainerInit ==
    /\ registry = <<>>
    /\ scoped_instances = <<>>
    /\ resolution_stack = <<>>
    /\ pc = "idle"
    /\ frame = NoFrame
    /\ result = Returned("init", NoName, NoName, PyNone)
    /\ nregs = 0
    /\ cleanup_calls = <<>>
    /\ dispatched = <<>>

\* No RegistrationMetadata has been created for a strategy call.
StrategyInit ==
    /\ records = {}
    /\ nrecords = 0

\* No Resource has been constructed.
NoProvider ==
    /\ provider = [cls |-> "NoneType"]
    /\ resource = [cls |-> "NoneType"]
    /\ resolved = FALSE
    /\ init_calls = 0

Init == ContainerInit /\ StrategyInit /\ NoProvider

\* The key is dropped from the dispatch history: its record is a new one.
Forget(keys, interface, name) ==
    SelectSeq(keys, LAMBDA key : key # <<interface, name>>)

\* Container.register with implementation=None: the class is its own factory,
\* and a class is no coroutine function.
Register(interface, name, cleanup, lifetime) ==
    /\ pc = "idle"
    /\ UNCHANGED <<strategy_vars, provider_vars>>
    /\ nregs < MaxRegs
    /\ registry' = SetInRegistry(registry, interface,
                       RegistrationMetadata(lifetime, interface, cleanup, PyNone, FALSE),
                       name)
    /\ nregs' = nregs + 1
    /\ result' = Returned("register", interface, name, PyNone)
    /\ dispatched' = Forget(dispatched, interface, name)
    /\ UNCHANGED <<scoped_instances, resolution_stack, pc, frame, cleanup_calls>>

\* Container.register_instance
RegisterInstance(interface, instance, name) ==
    /\ pc = "idle"
    /\ UNCHANGED <<strategy_vars, provider_vars>>
    /\ nregs < MaxRegs
    /\ registry' = SetInRegistry(registry, interface,
                       RegistrationMetadata("singleton", "lambda", PyNone,
                                            instance, FALSE),
                       name)
    /\ nregs' = nregs + 1
    /\ result' = Returned("register_instance", interface, name, PyNone)
    /\ dispatched' = Forget(dispatched, interface, name)
    /\ UNCHANGED <<scoped_instances, resolution_stack, pc, frame, cleanup_calls>>

---------------------------------------------------------------------------
(* Container.resolve / Container.async_resolve                             *)

\* stack_key in self._resolution_stack
OnStack(stack, interface, name) ==
    \E k \in 1..Len(stack) : stack[k] = <<interface, name>>

\* The key entered twice.
PushStackTwice(stack, interface, name) ==
    Append(Append(stack, <<interface, name>>), <<interface, name>>)

\* self._resolution_stack.append(stack_key)
PushStack(stack, interface, name) == Append(stack, <<interface, name>>)

\* The pop left out.
PopStackOmitted(stack) == stack

\* self._resolution_stack.pop() in the finally clause
PopStack(stack) == SubSeq(stack, 1, Len(stack) - 1)

\* The checks that open resolve and async_resolve (the two bodies are the same
\* text up to the await): not registered, name not registered, cycle, push.
ResolveEnter(op, interface, name) ==
    /\ pc = "idle"
    /\ UNCHANGED <<strategy_vars, provider_vars>>
    /\ IF ~InRegistry(registry, interface)
       THEN /\ result' = Raised(op, interface, name,
                                NotRegisteredError(interface, <<>>))
            /\ UNCHANGED <<resolution_stack, pc, frame>>
       ELSE IF ~RegsHas(RegistryGet(registry, interface), name)
       THEN /\ result' = Raised(op, interface, name,
                                NotRegisteredError(interface, NameStr(name)))
            /\ UNCHANGED <<resolution_stack, pc, frame>>
       ELSE IF OnStack(resolution_stack, interface, name)
       THEN /\ result' = Raised(op, interface, name,
                                CircularDependencyError(resolution_stack,
                                                        interface, name))
            /\ UNCHANGED <<resolution_stack, pc, frame>>
       ELSE /\ resolution_stack' = PushStack(resolution_stack, interface, name)
            /\ pc' = "pushed"
            /\ frame' = [op |-> op, interface |-> interface, name |-> name,
                         metadata |-> PyNone, exc |-> NoExc]
            /\ result' = Running(op, interface, name)
    /\ UNCHANGED <<registry, scoped_instances, nregs, cleanup_calls, dispatched>>

\* metadata = self._registry[interface]: the whole NamedRegistrations of the
\* interface, whatever the name asked for.
LookupMetadata(reg, interface, name) == RegistryGet(reg, interface)

\* The first two statements of the try block: the lookup, then
\* self._strategies[metadata.lifetime].  A NamedRegistrations has no
\* attribute lifetime, so the attribute access raises and the strategy, the
\* resolver closure and _construct are never reached; the guard states that
\* this is the only way through.
ResolveTry(op) ==
    /\ pc = "pushed"
    /\ UNCHANGED <<strategy_vars, provider_vars>>
    /\ frame.op = op
    /\ LET metadata == LookupMetadata(registry, frame.interface, frame.name) IN
        /\ ~HasAttr(metadata, "lifetime")
        /\ frame' = [frame EXCEPT !.metadata = metadata,
                                  !.exc = AttributeError(metadata, "lifetime")]
    /\ pc' = "finally"
    /\ dispatched' =
           IF \/ OnStack(dispatched, frame.interface, frame.name)
              \/ RegsGet(RegistryGet(registry, frame.interface),
                         frame.name).cleanup = PyNone
           THEN dispatched
           ELSE Append(dispatched, <<frame.interface, frame.name>>)
    /\ UNCHANGED <<registry, scoped_instances, resolution_stack, result, nregs,
                   cleanup_calls>>

\* The finally clause, then the exception leaves the call.
ResolveFinally(op) ==
    /\ pc = "finally"
    /\ UNCHANGED <<strategy_vars, provider_vars>>
    /\ frame.op = op
    /\ resolution_stack' = PopStack(resolution_stack)
    /\ result' = [Raised(op, frame.interface, frame.name, frame.exc)
                      EXCEPT !.value = PyNone]
    /\ frame' = NoFrame
    /\ pc' = "idle"
    /\ UNCHANGED <<registry, scoped_instances, nregs, cleanup_calls, dispatched>>

Resolve(interface, name) == ResolveEnter("resolve", interface, name)

ResolveDispatch == ResolveTry("resolve")

ResolveExit == ResolveFinally("resolve")

AsyncResolve(interface, name) == ResolveEnter("async_resolve", interface, name)

AsyncResolveDispatch == ResolveTry("async_resolve")

AsyncResolveExit == ResolveFinally("async_resolve")

---------------------------------------------------------------------------
(* Container.validate                                                      *)

\* typing.get_origin of a declared type: None for a class, the class
\* types.UnionType for X | None, the special form typing.Union for Optional[X].
GetOrigin(hint) ==
    CASE hint.kind = "pipe" -> [cls |-> "type", name |-> "types.UnionType"]
      [] hint.kind = "Optional" -> [cls |-> "_SpecialForm", name |-> "typing.Union"]
      [] OTHER -> PyNone

\* isinstance(origin, UnionType)
IsInstanceUnionType(origin) == origin.cls = "UnionType"

\* param_type in self._registry: the keys are classes, a union is no key.
HintInRegistry(reg, hint) == hint.kind = "class" /\ InRegistry(reg, hint.target)

\* DiResolutionError("Parameter p has no type hint and not defaults")
NoTypeHintError(param_name) ==
    [cls |-> "DiResolutionError",
     msg |-> <<"Parameter ", param_name, " has no type hint and not defaults">>]

\* The f-string of the last raise of _validate_type reads param_type.__name__:
\* a class has one, Optional[X] answers "Optional", and X | None has none, so
\* building the message raises AttributeError instead.
CannotResolveParameterError(param_name, hint, interface) ==
    IF hint.kind = "pipe"
    THEN AttributeError([cls |-> "types.UnionType"], "__name__")
    ELSE [cls |-> "DiResolutionError",
          msg |-> <<"Cannot resolve parameter ", param_name, " of type ",
                    IF hint.kind = "class" THEN hint.target ELSE "Optional",
                    " for interface of type ", interface>>]

\* The set shared by the branches: the key of a validated branch stays in it.
VisitedSharedAcrossBranches(visited, stack_key) == visited \cup {stack_key}

\* The caller's visited set once the branch of stack_key has been validated:
\* the callee worked on visited.copy() and removed its own key before it
\* returned, so the next parameter starts from the set as it was.
VisitedAfterBranch(visited, stack_key) == visited

RECURSIVE ValidateType(_, _, _, _, _)
RECURSIVE ValidateParams(_, _, _, _, _, _)

\* The parameter loop of _validate_type from parameter i on; the exception it
\* raises, or NoExc.
ValidateParams(reg, stack, interface, params, i, visited) ==
    IF i > Len(params) THEN NoExc
    ELSE
    LET param == params[i]
        \* continue: the set is as it was
        rest == ValidateParams(reg, stack, interface, params, i + 1, visited)
    IN
    IF param.hint.kind = "missing"
    THEN IF ~param.has_default THEN NoTypeHintError(param.name) ELSE rest
    ELSE
    LET optional == IsInstanceUnionType(GetOrigin(param.hint))
        \* non_none_types[0] when the union branch is taken
        param_type == IF optional THEN Plain(param.hint.target) ELSE param.hint
    IN
    IF HintInRegistry(reg, param_type)
    THEN LET exc == ValidateType(reg, stack, param_type.target, NoName, visited)
         IN IF exc # NoExc THEN exc
            ELSE ValidateParams(reg, stack, interface, params, i + 1,
                                VisitedAfterBranch(visited,
                                                   <<param_type.target, NoName>>))
    ELSE IF ~param.has_default
    THEN CannotResolveParameterError(param.name, param_type, interface)
    ELSE rest

\* Container._validate_type; visited is the set on entry (the callers pass a
\* copy, so what the callee adds and removes is not seen by them).  The cycle
\* text is built from self._resolution_stack.
ValidateType(reg, stack, interface, name, visited) ==
    IF <<interface, name>> \in visited
    THEN CircularDependencyError(stack, interface, name)
    ELSE IF ~InRegistry(reg, interface)
    THEN NotRegisteredError(interface, <<>>)
    ELSE IF ~RegsHas(RegistryGet(reg, interface), name)
    THEN NotRegisteredError(interface, NameStr(name))
    ELSE ValidateParams(reg, stack, interface,
                        Params(RegsGet(RegistryGet(reg, interface), name).factory),
                        1, visited \cup {<<interface, name>>})

\* The aggregate raised as the error of a failed callable.
ValidationErrorAsCallableError(errors) ==
    [cls |-> "DiCallableError",
     msg |-> <<"Error", " raised during container validation:">>,
     errors |-> errors]

\* DiValidationError listing f"Interface {interface.__name__}: {exc}" per error.
ValidationError(errors) ==
    [cls |-> "DiValidationError",
     msg |-> <<IF Len(errors) > 1 THEN "Errors" ELSE "Error",
               " raised during container validation:">>,
     errors |-> errors]

\* Every interface of the registry taken for validation, named-only ones too.
HasAnyRegistration(named_regs) == TRUE

\* named_regs.default is not None
HasDefault(named_regs) == named_regs.default # PyNone

RECURSIVE ValidateLoop(_, _, _, _)

\* The loop of validate over self._registry.items() from entry k on, then the
\* raise; an exception other than the two caught leaves the loop at once.
ValidateLoop(reg, stack, k, errors) ==
    IF k > Len(reg)
    THEN IF errors # <<>> THEN ValidationError(errors) ELSE NoExc
    ELSE IF ~HasDefault(reg[k].regs)
    THEN ValidateLoop(reg, stack, k + 1, errors)
    ELSE
    LET exc == ValidateType(reg, stack, reg[k].interface, NoName, {}) IN
    IF exc = NoExc THEN ValidateLoop(reg, stack, k + 1, errors)
    ELSE IF exc.cls \in {"DiResolutionError", "DiCircularDependencyError"}
    THEN ValidateLoop(reg, stack, k + 1,
                      Append(errors, [interface |-> reg[k].interface, exc |-> exc]))
    ELSE exc

Validate ==
    /\ pc = "idle"
    /\ UNCHANGED <<strategy_vars, provider_vars>>
    /\ LET exc == ValidateLoop(registry, resolution_stack, 1, <<>>) IN
        result' = IF exc = NoExc
                  THEN Returned("validate", NoName, NoName, PyNone)
                  ELSE Raised("validate", NoName, NoName, exc)
    /\ UNCHANGED <<registry, scoped_instances, resolution_stack, pc, frame, nregs,
                   cleanup_calls, dispatched>>

---------------------------------------------------------------------------
(* Container.shutdown_resources / Container.async_shutdown_resources       *)

\* NamedRegistrations.all_metadata: the default record if there is one, then
\* the named records in insertion order (each kept with the name it is under).
AllMetadata(regs) ==
    (IF regs.default # PyNone
     THEN <<[name |-> NoName, metadata |-> regs.default]>>
     ELSE <<>>) \o regs.named

\* reversed(list(...))
Reversed(seq) == [k \in 1..Len(seq) |-> seq[Len(seq) + 1 - k]]

RECURSIVE ShutdownOrderFrom(_, _)
\* The records the two nested loops visit from registry entry k downwards.
ShutdownOrderFrom(reg, k) ==
    IF k = 0 THEN <<>>
    ELSE LET inner == Reversed(AllMetadata(reg[k].regs)) IN
         [m \in 1..Len(inner) |->
             [interface |-> reg[k].interface, name |-> inner[m].name,
              metadata |-> inner[m].metadata]]
         \o ShutdownOrderFrom(reg, k - 1)

\* for named_regs in reversed(registry.values()):
\*     for metadata in reversed(named_regs.all_metadata()):
ShutdownOrder(reg) == ShutdownOrderFrom(reg, Len(reg))

\* (metadata.cleanup is not None) and (metadata.instance is not None)
Eligible(metadata) == metadata.cleanup # PyNone /\ metadata.instance # PyNone

\* inspect.iscoroutinefunction(metadata.cleanup)
IsCoroutineFunction(f) == f.is_coroutine

\* One call metadata.cleanup(metadata.instance), awaited or not.
Call(cleanup, instance) == [cleanup |-> cleanup, instance |-> instance]

\* The entry shutdown_resources appends for a coroutine cleanup.
AwaitableCleanupError(instance) ==
    <<"An awaitable resource cleanup for instance ", instance.id,
      " can not be called with shutdown_resources. Skipped it">>

\* The entry appended when a cleanup raised.
CleanupFailedError(instance, cleanup) ==
    <<"An exception occured when cleaning up resource for instance ",
      instance.id, ": ", cleanup.name>>

\* DiCallableError(_construct_shutdown_resource_err_msg(errors))
ShutdownError(errors) ==
    [cls |-> "DiCallableError",
     msg |-> <<IF Len(errors) > 1 THEN "Errors" ELSE "Error",
               " raised while shutting down resources:">>,
     errors |-> errors]

RECURSIVE ShutdownLoop(_, _, _, _, _)
\* The loop body from the k-th visited record on: the cleanup calls made and
\* the error entries collected.
ShutdownLoop(op, order, k, calls, errors) ==
    IF k > Len(order) THEN [calls |-> calls, errors |-> errors]
    ELSE
    LET metadata == order[k].metadata IN
    IF ~Eligible(metadata)
    THEN ShutdownLoop(op, order, k + 1, calls, errors)
    ELSE IF op = "shutdown_resources" /\ IsCoroutineFunction(metadata.cleanup)
    THEN ShutdownLoop(op, order, k + 1, calls,
                      Append(errors, AwaitableCleanupError(metadata.instance)))
    ELSE ShutdownLoop(op, order, k + 1,
                      Append(calls, Call(metadata.cleanup, metadata.instance)),
                      IF metadata.cleanup.raises
                      THEN Append(errors, CleanupFailedError(metadata.instance,
                                                             metadata.cleanup))
                      ELSE errors)

\* Both shutdown methods: the loop, then the raise when errors were collected.
\* Neither writes to a record.
ShutdownCall(op) ==
    /\ pc = "idle"
    /\ UNCHANGED <<strategy_vars, provider_vars>>
    /\ LET out == ShutdownLoop(op, ShutdownOrder(registry), 1, <<>>, <<>>) IN
        /\ cleanup_calls' = cleanup_calls \o out.calls
        /\ result' = IF out.errors # <<>>
                      THEN Raised(op, NoName, NoName, ShutdownError(out.errors))
                      ELSE Returned(op, NoName, NoName, PyNone)
    /\ dispatched' = <<>>
    /\ UNCHANGED <<registry, scoped_instances, resolution_stack, pc, frame, nregs>>

ShutdownResources == ShutdownCall("shutdown_resources")

AsyncShutdownResources == ShutdownCall("async_shutdown_resources")

ShutdownOps == {"shutdown_resources", "async_shutdown_resources"}

---------------------------------------------------------------------------
(* Container.clear_scoped                                                  *)

\* ScopedStrategy.clear_scope
ClearScope(instances) == <<>>

ClearScoped ==
    /\ pc = "idle"
    /\ UNCHANGED <<strategy_vars, provider_vars>>
    /\ scoped_instances' = ClearScope(scoped_instances)
    /\ result' = Returned("clear_scoped", NoName, NoName, PyNone)
    /\ UNCHANGED <<registry, resolution_stack, pc, frame, nregs, cleanup_calls,
                   dispatched>>

---------------------------------------------------------------------------
(* lifetimes.py: ScopedStrategy called with records of its own              *)

MaxRecords == 3

\* What id() can return for the resolved_params dict of a record: unique
\* among the objects alive at the same time, and free again once the object
\* has been collected.
Addresses == 1..3

ScopedKeys == {<<"Config", NoName>>, <<"Config", "special">>}

StrategyOps == {"ScopedStrategy.resolve", "ScopedStrategy.async_resolve"}

\* id(metadata.resolved_params) of the live records.
LiveIds == {r.resolved_params : r \in records}

\* RegistrationMetadata(lifetime="scoped", factory=...): resolved_params is a
\* new dict (default_factory), whose id is any address no live dict has, the
\* dict of the record it is about to replace included.  The record then
\* replaces the one its owner held for the key, which is collected with its
\* dict.
NewRecord(key, address) ==
    /\ pc = "idle"
    /\ nrecords < MaxRecords
    /\ address \notin LiveIds
    /\ records' = {r \in records : r.key # key}
                     \cup {[key |-> key, serial |-> nrecords + 1,
                            resolved_params |-> address]}
    /\ nrecords' = nrecords + 1
    /\ result' = Returned("RegistrationMetadata", key[1], key[2], PyNone)
    /\ UNCHANGED <<registry, scoped_instances, resolution_stack, pc, frame, nregs,
                   cleanup_calls, dispatched, provider_vars>>

\* scope_id in self._scoped_instances
ScopeHas(instances, scope_id) ==
    \E k \in 1..Len(instances) : instances[k].id = scope_id

\* self._scoped_instances[scope_id]
ScopeGet(instances, scope_id) ==
    instances[CHOOSE k \in 1..Len(instances) : instances[k].id = scope_id].instance

\* scope_id = id(metadata.resolved_params)
ScopeId(metadata) == metadata.resolved_params

\* resolver(): the instance the factory of the record builds.
Constructed(metadata) ==
    [cls |-> metadata.key[1], made_for |-> metadata.key, made_by |-> metadata.serial]

\* ScopedStrategy.resolve and, with a resolver that is no coroutine function,
\* ScopedStrategy.async_resolve: the same statements.
StrategyResolve(op, metadata) ==
    /\ pc = "idle"
    /\ metadata \in records
    /\ LET scope_id == ScopeId(metadata)
           instances == IF ScopeHas(scoped_instances, scope_id)
                        THEN scoped_instances
                        ELSE Append(scoped_instances,
                                    [id |-> scope_id,
                                     instance |-> Constructed(metadata)])
       IN /\ scoped_instances' = instances
          /\ result' = Returned(op, metadata.key[1], metadata.key[2],
                                ScopeGet(instances, scope_id))
    /\ UNCHANGED <<registry, resolution_stack, pc, frame, nregs, cleanup_calls,
                   dispatched, strategy_vars, provider_vars>>

ScopedResolve(metadata) == StrategyResolve("ScopedStrategy.resolve", metadata)

ScopedAsyncResolve(metadata) ==
    StrategyResolve("ScopedStrategy.async_resolve", metadata)

\* A ScopedStrategy driven with records of scoped registrations: records are
\* created and replaced, resolved through the strategy, and the scope cleared.
StrategyNext ==
    \/ \E key \in ScopedKeys, address \in Addresses : NewRecord(key, address)
    \/ \E metadata \in records : ScopedResolve(metadata)
    \/ \E metadata \in records : ScopedAsyncResolve(metadata)
    \/ ClearScoped

StrategySpec == Init /\ [][StrategyNext]_vars

---------------------------------------------------------------------------
(* providers.py: Resource                                                  *)

MaxInits == 3
MaxCleanups == 3

\* A named function handed to Resource: plain, or a coroutine function.
Function(name, is_coroutine) ==
    [cls |-> "function", name |-> name, is_coroutine |-> is_coroutine]

\* _UNSET
Unset == [cls |-> "UnsetType"]

\* isinstance(self.resource, _UnsetT)
IsUnset(value) == value = Unset

\* Resource.__init__ keeps its arguments.
ResourceProvider(initializer, cleanup, singleton) ==
    [cls |-> "Resource", init_func |-> initializer, cleanup_func |-> cleanup,
     singleton |-> singleton]

Initializers == {Function("connect", FALSE), Function("aconnect", TRUE)}

ProviderCleanups ==
    {PyNone, Function("disconnect", FALSE), Function("adisconnect", TRUE)}

\* Resource(initializer, cleanup, singleton=...): nothing initialized.
ResourceInit ==
    /\ ContainerInit
    /\ StrategyInit
    /\ provider \in {ResourceProvider(i, c, s) :
                         i \in Initializers, c \in ProviderCleanups, s \in BOOLEAN}
    /\ resource = Unset
    /\ resolved = FALSE
    /\ init_calls = 0

\* What the n-th call of the initializer returns.
Initialized(n) == Obj(n)

\* DiUninitializedResourceError of get
UninitializedResourceError ==
    [cls |-> "DiUninitializedResourceError",
     msg |-> <<"Resource ", Unset.cls, " is not initialized">>]

\* TypeError of the sync methods called on a Resource with a coroutine function
SyncOnAsyncError(method) ==
    [cls |-> "TypeError",
     msg |-> <<"Cannot call sync ", method, " on an async ", "Resource">>]

\* _sync_catch_run / _async_catch_run: raise DiCallableError(...) from exc
CallableError(func_name) ==
    [cls |-> "DiCallableError",
     msg |-> <<"An error occured whilst calling the factory ", func_name>>,
     service |-> "Resource"]

\* Resource.is_resolved
IsResolved == resolved

ResourceIsResolved ==
    /\ pc = "idle"
    /\ provider.cls = "Resource"
    /\ result' = Returned("Resource.is_resolved", NoName, NoName,
                          [cls |-> "bool", value |-> IsResolved])
    /\ UNCHANGED <<registry, scoped_instances, resolution_stack, pc, frame, nregs,
                   cleanup_calls, dispatched, strategy_vars, provider_vars>>

\* Resource.get: both branches that return hand out self.resource.
ResourceGet ==
    /\ pc = "idle"
    /\ provider.cls = "Resource"
    /\ result' = IF (provider.singleton /\ resolved) /\ ~IsUnset(resource)
                 THEN Returned("Resource.get", NoName, NoName, resource)
                 ELSE IF ~IsUnset(resource)
                 THEN Returned("Resource.get", NoName, NoName, resource)
                 ELSE Raised("Resource.get", NoName, NoName,
                             UninitializedResourceError)
    /\ UNCHANGED <<registry, scoped_instances, resolution_stack, pc, frame, nregs,
                   cleanup_calls, dispatched, strategy_vars, provider_vars>>

\* The body shared by resolve and async_resolve once the initializer may be
\* called: the call through _sync_catch_run / _async_catch_run, which either
\* raises DiCallableError before anything is assigned, or returns the value
\* that is assigned to self.resource; then self._resolved.
Initialize(op, fails) ==
    /\ init_calls < MaxInits
    /\ init_calls' = init_calls + 1
    /\ IF fails
       THEN /\ result' = Raised(op, NoName, NoName,
                                CallableError(provider.init_func.name))
            /\ UNCHANGED <<resource, resolved>>
       ELSE /\ resource' = Initialized(init_calls + 1)
            /\ resolved' = IF provider.singleton /\ ~resolved THEN TRUE
                           ELSE resolved
            /\ result' = Returned(op, NoName, NoName, Initialized(init_calls + 1))

\* Resource.resolve; fails: whether the initializer raises in this call.
ResourceResolve(fails) ==
    /\ pc = "idle"
    /\ provider.cls = "Resource"
    /\ IF provider.singleton /\ ~IsUnset(resource)
       THEN /\ result' = Returned("Resource.resolve", NoName, NoName, resource)
            /\ UNCHANGED <<resource, resolved, init_calls>>
       ELSE IF provider.init_func.is_coroutine
       THEN /\ result' = Raised("Resource.resolve", NoName, NoName,
                                SyncOnAsyncError("resolve()"))
            /\ UNCHANGED <<resource, resolved, init_calls>>
       ELSE Initialize("Resource.resolve", fails)
    /\ UNCHANGED <<registry, scoped_instances, resolution_stack, pc, frame, nregs,
                   cleanup_calls, dispatched, strategy_vars, provider>>

\* Resource.async_resolve, awaited to its end.
ResourceAsyncResolve(fails) ==
    /\ pc = "idle"
    /\ provider.cls = "Resource"
    /\ IF provider.singleton /\ ~IsUnset(resource)
       THEN /\ result' = Returned("Resource.async_resolve", NoName, NoName,
                                  resource)
            /\ UNCHANGED <<resource, resolved, init_calls>>
       ELSE Initialize("Resource.async_resolve", fails)
    /\ UNCHANGED <<registry, scoped_instances, resolution_stack, pc, frame, nregs,
                   cleanup_calls, dispatched, strategy_vars, provider>>

\* The body shared by shutdown and async_shutdown: the cleanup call when
\* there is a cleanup and a resource, then the reset.  When the cleanup
\* raises, DiCallableError leaves the method before the reset.
Cleanup(op, fails) ==
    IF provider.cleanup_func # PyNone /\ ~IsUnset(resource)
    THEN /\ Len(cleanup_calls) < MaxCleanups
         /\ cleanup_calls' = Append(cleanup_calls,
                                    Call(provider.cleanup_func, resource))
         /\ IF fails
            THEN /\ result' = Raised(op, NoName, NoName,
                                     CallableError("<lambda>"))
                 /\ UNCHANGED <<resource, resolved>>
            ELSE /\ resolved' = IF provider.singleton /\ resolved THEN FALSE
                                ELSE resolved
                 /\ resource' = Unset
                 /\ result' = Returned(op, NoName, NoName, PyNone)
    ELSE /\ resolved' = IF provider.singleton /\ resolved THEN FALSE ELSE resolved
         /\ resource' = Unset
         /\ result' = Returned(op, NoName, NoName, PyNone)
         /\ UNCHANGED cleanup_calls

\* Resource.shutdown; fails: whether the cleanup raises in this call.
ResourceShutdown(fails) ==
    /\ pc = "idle"
    /\ provider.cls = "Resource"
    /\ IF provider.cleanup_func # PyNone /\ provider.cleanup_func.is_coroutine
       THEN /\ result' = Raised("Resource.shutdown", NoName, NoName,
                                SyncOnAsyncError("shutdown()"))
            /\ UNCHANGED <<resource, resolved, cleanup_calls>>
       ELSE Cleanup("Resource.shutdown", fails)
    /\ UNCHANGED <<registry, scoped_instances, resolution_stack, pc, frame, nregs,
                   dispatched, strategy_vars, provider, init_calls>>

\* Resource.async_shutdown, awaited to its end.
ResourceAsyncShutdown(fails) ==
    /\ pc = "idle"
    /\ provider.cls = "Resource"
    /\ Cleanup("Resource.async_shutdown", fails)
    /\ UNCHANGED <<registry, scoped_instances, resolution_stack, pc, frame, nregs,
                   dispatched, strategy_vars, provider, init_calls>>

ResourceNext ==
    \/ \E fails \in BOOLEAN : ResourceResolve(fails)
    \/ \E fails \in BOOLEAN : ResourceAsyncResolve(fails)
    \/ ResourceGet
    \/ ResourceIsResolved
    \/ \E fails \in BOOLEAN : ResourceShutdown(fails)
    \/ \E fails \in BOOLEAN : ResourceAsyncShutdown(fails)

ResourceSpec == ResourceInit /\ [][ResourceNext]_vars

---------------------------------------------------------------------------
Next ==
    \/ \E i \in Types, n \in RegNames : \E l \in LifetimesOf(i) :
           \E c \in CleanupsOf(i, l) : Register(i, n, c, l)
    \/ \E i \in InstanceTypes, n \in RegNames, o \in ExtObjs :
           RegisterInstance(i, Obj(o), n)
    \/ \E i \in Types, n \in ResolveNames : Resolve(i, n)
    \/ ResolveDispatch
    \/ ResolveExit
    \/ \E i \in Types, n \in ResolveNames : AsyncResolve(i, n)
    \/ AsyncResolveDispatch
    \/ AsyncResolveExit
    \/ Validate
    \/ ShutdownResources
    \/ AsyncShutdownResources
    \/ ClearScoped

Spec == Init /\ [][Next]_vars

\* A resolve or async_resolve call that has begun runs on: resolve is
\* straight-line synchronous code, and the coroutine of async_resolve is
\* driven by the event loop that awaits it.
FairSpec ==
    /\ Spec
    /\ WF_vars(ResolveDispatch)
    /\ WF_vars(ResolveExit)
    /\ WF_vars(AsyncResolveDispatch)
    /\ WF_vars(AsyncResolveExit)

---------------------------------------------------------------------------
(* Vocabulary of the properties                                            *)

\* The last call was a resolve or async_resolve and has finished.
ResolveFinished ==
    pc = "idle" /\ result.op \in ResolveOps /\ result.status # "running"

\* The record registered under exactly the key (interface, name), read off the
\* registry entry by entry; PyNone when there is none.
RecordsUnder(interface, name) ==
    UNION {
        IF name = NoName
        THEN {registry[k].regs.default}
        ELSE {registry[k].regs.named[m].metadata :
                m \in {j \in 1..Len(registry[k].regs.named) :
                         registry[k].regs.named[j].name = name}} :
        k \in {j \in 1..Len(registry) : registry[j].interface = interface}}

KeyRegistered(interface, name) ==
    \E r \in RecordsUnder(interface, name) : r # PyNone

RecordUnder(interface, name) ==
    CHOOSE r \in RecordsUnder(interface, name) : r # PyNone

\* The interface has no registration of any kind.
NoRegistrationAtAll(interface) ==
    \A k \in 1..Len(registry) : registry[k].interface # interface

\* The text occurs in the message.
Contains(msg, text) == \E k \in 1..Len(msg) : msg[k] = text

\* The last call resolved a registered key with the given lifetime whose
\* factory takes no parameters, so nothing but the factory could make it fail.
ResolvedLeaf(lifetime) ==
    /\ ResolveFinished
    /\ KeyRegistered(result.interface, result.name)
    /\ RecordUnder(result.interface, result.name).lifetime = lifetime
    /\ Params(RecordUnder(result.interface, result.name).factory) = <<>>

\* The classes the default registration of t declares as parameters.
DeclaredDeps(t) ==
    IF KeyRegistered(t, NoName)
    THEN {Params(RecordUnder(t, NoName).factory)[k].hint.target :
            k \in 1..Len(Params(RecordUnder(t, NoName).factory))}
    ELSE {}

RECURSIVE ReachableIn(_, _)
\* What t reaches in at most n + 1 steps along declared parameters.
ReachableIn(t, n) ==
    IF n = 0 THEN DeclaredDeps(t)
    ELSE LET near == ReachableIn(t, n - 1)
         IN near \cup UNION {DeclaredDeps(u) : u \in near}

Reachable(t) == ReachableIn(t, Cardinality(Types))

DefaultRegistered == {t \in Types : KeyRegistered(t, NoName)}

\* The last call was validate().
ValidateFinished == pc = "idle" /\ result.op = "validate"

\* The dry run of the default registration of t cannot succeed: a parameter
\* it reaches has no default registration of its type (no parameter of the
\* classes here has a default value), or the walk runs into a cycle.
WalkFails(t) ==
    \/ ~(Reachable(t) \subseteq DefaultRegistered)
    \/ \E u \in Reachable(t) \cup {t} : u \in Reachable(u)

FailingDefaults == {t \in DefaultRegistered : WalkFails(t)}

---------------------------------------------------------------------------
(* C1 (as claimed): a resolve of a key registered with singleton lifetime   *)
(* succeeds (the first one constructs and caches), and every successful     *)
(* resolve of the key returns the instance cached in the key's record, so   *)
(* that all of them return the identical instance and the factory ran once. *)
C1_SingletonResolveReturnsCached ==
    ResolvedLeaf("singleton") =>
        /\ result.status = "returned"
        /\ result.value # PyNone
        /\ result.value = RecordUnder(result.interface, result.name).instance

(* C2 (as claimed): a resolve of a key registered with transient lifetime   *)
(* succeeds with a freshly constructed instance, and the cached-instance    *)
(* slot of the key stays empty.                                             *)
C2_TransientResolveConstructs ==
    ResolvedLeaf("transient") =>
        /\ result.status = "returned"
        /\ result.value # PyNone
        /\ RecordUnder(result.interface, result.name).instance = PyNone

(* C3 (as claimed): a resolve of a key registered with scoped lifetime      *)
(* succeeds and returns the instance held for the key in the scoped map     *)
(* since the last clear_scoped.                                             *)
C3_ScopedResolveReturnsScopeInstance ==
    ResolvedLeaf("scoped") =>
        /\ result.status = "returned"
        /\ \E k \in 1..Len(scoped_instances) :
               scoped_instances[k].instance = result.value

(* C4 (as claimed): when the default registrations reachable from the       *)
(* resolved key contain a cycle, resolve raises CircularDependencyError;    *)
(* for CircularA <-> CircularB resolved from CircularA the chain reads      *)
(* CircularA(default) -> CircularB(default) -> CircularA(default).          *)
C4_CycleRaisesCircularDependencyError ==
    ( /\ ResolveFinished
      /\ KeyRegistered(result.interface, result.name)
      /\ Reachable(result.interface) \subseteq DefaultRegistered
      /\ \E t \in Reachable(result.interface) : t \in Reachable(t) )
    => /\ result.status = "raised"
       /\ result.exc.cls = "DiCircularDependencyError"
       /\ (result.interface = "CircularA" /\ result.name = NoName) =>
              result.exc.chain = <<[type |-> "CircularA", label |-> "default"],
                                   [type |-> "CircularB", label |-> "default"],
                                   [type |-> "CircularA", label |-> "default"]>>

(* C5: no key is twice on the resolution stack, and whenever no resolve or  *)
(* async_resolve call is in flight (each one has returned or raised) the    *)
(* resolution stack is empty.                                               *)
C5_StackPairedAndDuplicateFree ==
    /\ \A j, k \in 1..Len(resolution_stack) :
           resolution_stack[j] = resolution_stack[k] => j = k
    /\ pc = "idle" => resolution_stack = <<>>

\* A call that pushed its key has left through the exception path.
C5_Witness ==
    /\ ResolveFinished
    /\ result.status = "raised"
    /\ result.exc.cls # "DiResolutionError"
    /\ KeyRegistered(result.interface, result.name)
    /\ resolution_stack = <<>>

(* C6 (as claimed): the record resolve builds from, once its try block has  *)
(* looked it up, is the record registered under exactly the key             *)
(* (abstraction, name) of the call.                                         *)
C6_ResolveUsesTheRecordOfItsKey ==
    pc = "finally" =>
        frame.metadata = RecordUnder(frame.interface, frame.name)

(* C7: a resolve or async_resolve of an abstraction with no registration at *)
(* all raises ResolutionError saying "not registered" within the call's     *)
(* first step, with nothing pushed and registry, caches and stack as they   *)
(* were.                                                                    *)
C7_UnregisteredFailsImmediately ==
    [][ ( /\ pc = "idle"
          /\ result'.op \in ResolveOps
          /\ NoRegistrationAtAll(result'.interface) )
        => /\ result'.status = "raised"
           /\ result'.exc.cls = "DiResolutionError"
           /\ Contains(result'.exc.msg, " is not registered")
           /\ pc' = "idle"
           /\ UNCHANGED <<registry, scoped_instances, resolution_stack>> ]_vars

\* An unregistered abstraction was resolved on a container that holds others.
C7_Witness ==
    /\ ResolveFinished
    /\ NoRegistrationAtAll(result.interface)
    /\ registry # <<>>
    /\ result.status = "raised"

(* C8: a resolve of the named variant n of an abstraction that has some     *)
(* registration, but none under n, raises ResolutionError whose message     *)
(* contains n.                                                              *)
C8_MissingNameIsNamedInTheError ==
    [][ ( /\ pc = "idle"
          /\ result'.op \in ResolveOps
          /\ result'.name # NoName
          /\ ~NoRegistrationAtAll(result'.interface)
          /\ ~KeyRegistered(result'.interface, result'.name) )
        => /\ result'.status = "raised"
           /\ result'.exc.cls = "DiResolutionError"
           /\ Contains(result'.exc.msg, " is not registered")
           /\ Contains(result'.exc.msg, result'.name) ]_vars

\* The name was asked of an abstraction registered only under another name.
C8_Witness ==
    /\ ResolveFinished
    /\ result.name = "other"
    /\ KeyRegistered(result.interface, "special")
    /\ ~KeyRegistered(result.interface, NoName)
    /\ result.status = "raised"

(* C9 (as claimed): with only named registrations of an abstraction T, a    *)
(* resolve of T itself, and a resolve of a registered key whose first       *)
(* required parameter is of type T, both raise ResolutionError saying       *)
(* "not registered".                                                        *)
C9_NamedNeverServesAsDefault ==
    ( /\ ResolveFinished
      /\ \E t \in Types :
            /\ ~NoRegistrationAtAll(t)
            /\ ~KeyRegistered(t, NoName)
            /\ \/ (result.interface = t /\ result.name = NoName)
               \/ /\ KeyRegistered(result.interface, result.name)
                  /\ Params(RecordUnder(result.interface, result.name).factory)
                         # <<>>
                  /\ Params(RecordUnder(result.interface, result.name).factory)[1]
                         = Param(Params(RecordUnder(result.interface,
                                            result.name).factory)[1].name,
                                 Plain(t), FALSE) )
    => /\ result.status = "raised"
       /\ result.exc.cls = "DiResolutionError"
       /\ Contains(result.exc.msg, " is not registered")

(* C10 (as claimed): when every parameter declared by a default             *)
(* registration is of a type that has a default registration, and no        *)
(* default registration reaches itself along declared parameters,           *)
(* validate() returns normally.                                             *)
C10_ValidatePassesOnAcyclicGraph ==
    ( /\ pc = "idle"
      /\ result.op = "validate"
      /\ \A t \in DefaultRegistered : DeclaredDeps(t) \subseteq DefaultRegistered
      /\ \A t \in DefaultRegistered : t \notin Reachable(t) )
    => result.status = "returned"

(* C11 (as claimed): validate() returns when the walk of no default         *)
(* registration fails; otherwise it raises one ValidationError that lists   *)
(* exactly one entry per default-registered interface whose walk fails,     *)
(* each with its ResolutionError or CircularDependencyError, so that no     *)
(* failure hides another.                                                   *)
C11_ValidateAggregatesEveryFailure ==
    ValidateFinished =>
        IF FailingDefaults = {}
        THEN result.status = "returned"
        ELSE /\ result.status = "raised"
             /\ result.exc.cls = "DiValidationError"
             /\ Len(result.exc.errors) = Cardinality(FailingDefaults)
             /\ \A t \in FailingDefaults :
                    \E k \in 1..Len(result.exc.errors) :
                        /\ result.exc.errors[k].interface = t
                        /\ result.exc.errors[k].exc.cls \in
                               {"DiResolutionError", "DiCircularDependencyError"}

\* A record with nothing to break: a class without parameters.
SoundRecord == RegistrationMetadata("transient", "Config", PyNone, PyNone, FALSE)

\* The registry with every named record replaced by the sound one.
NamedMadeSound(reg) ==
    [k \in 1..Len(reg) |->
        [interface |-> reg[k].interface,
         regs |-> [cls |-> "NamedRegistrations",
                   default |-> reg[k].regs.default,
                   named |-> [m \in 1..Len(reg[k].regs.named) |->
                                 [name |-> reg[k].regs.named[m].name,
                                  metadata |-> SoundRecord]]]]]

\* What validate() answers on the registry reg.
ValidateOutcome(reg) ==
    LET exc == ValidateLoop(reg, <<>>, 1, <<>>) IN
    IF exc = NoExc THEN Returned("validate", NoName, NoName, PyNone)
    ELSE Raised("validate", NoName, NoName, exc)

(* C12: validate() never walks a named registration: it returns on a        *)
(* registry without default registrations, what it answers is what it       *)
(* would answer were every named record a sound one, and no entry of its    *)
(* error concerns an interface that has no default registration.            *)
C12_NamedRegistrationsAreNotValidated ==
    ValidateFinished =>
        /\ DefaultRegistered = {} => result.status = "returned"
        /\ result = ValidateOutcome(NamedMadeSound(registry))
        /\ (result.status = "raised" /\ result.exc.cls = "DiValidationError") =>
               \A k \in 1..Len(result.exc.errors) :
                   result.exc.errors[k].interface \in DefaultRegistered

\* validate() returned on a registry that holds a named registration whose
\* parameter type is registered nowhere, or one that is part of a cycle.
C12_Witness ==
    /\ ValidateFinished
    /\ result.status = "returned"
    /\ \E t \in Types :
           /\ KeyRegistered(t, "special")
           /\ \/ \E k \in 1..Len(Params(RecordUnder(t, "special").factory)) :
                     NoRegistrationAtAll(
                         Params(RecordUnder(t, "special").factory)[k].hint.target)
              \/ /\ t = "CircularA"
                 /\ KeyRegistered("CircularB", "special")

(* C13: a validate() call, whether it returns or raises, leaves the         *)
(* registry (and with it every cached-instance slot), the scoped instance   *)
(* map and the resolution stack as they were, makes no cleanup call, and    *)
(* what it raises is never a CallableError.                                 *)
C13_ValidateConstructsNothing ==
    [][ (pc = "idle" /\ result'.op = "validate")
        => /\ UNCHANGED <<registry, scoped_instances, resolution_stack,
                          cleanup_calls>>
           /\ pc' = "idle"
           /\ result'.exc.cls # "DiCallableError" ]_vars

\* validate() raised on a registry that holds a cached instance.
C13_Witness ==
    /\ ValidateFinished
    /\ result.status = "raised"
    /\ \E t \in Types, n \in RegNames :
           /\ KeyRegistered(t, n)
           /\ RecordUnder(t, n).instance # PyNone

(* C14 (as claimed): the shutdown loops visit the records in the exact      *)
(* reverse of the order of their registration; in particular the record a   *)
(* register or register_instance call has just stored is the first one a    *)
(* shutdown would visit.                                                    *)
C14_ShutdownVisitsInReverseRegistrationOrder ==
    [][ (pc = "idle" /\ nregs' = nregs + 1)
        => /\ ShutdownOrder(registry')[1].interface = result'.interface
           /\ ShutdownOrder(registry')[1].name = result'.name ]_vars

---------------------------------------------------------------------------
(* Vocabulary of the shutdown properties                                   *)

\* The step is a call of shutdown_resources or async_shutdown_resources.
ShutdownStep == pc = "idle" /\ result'.op \in ShutdownOps

\* The cleanup calls the step makes.
NewCalls == SubSeq(cleanup_calls', Len(cleanup_calls) + 1, Len(cleanup_calls'))

\* The keys registered with a cleanup callback.
KeysWithCleanup ==
    {key \in Types \X RegNames :
        /\ KeyRegistered(key[1], key[2])
        /\ RecordUnder(key[1], key[2]).cleanup # PyNone}

\* The shutdown method op can run the cleanup: the synchronous one cannot
\* run a coroutine function.
Runnable(op, key) ==
    \/ op = "async_shutdown_resources"
    \/ ~RecordUnder(key[1], key[2]).cleanup.is_coroutine

\* A singleton key whose resolve got as far as the strategy since the last
\* shutdown: per C1 an instance was constructed and cached for it.
ResolvedSinceShutdown(key) ==
    /\ OnStack(dispatched, key[1], key[2])
    /\ RecordUnder(key[1], key[2]).lifetime = "singleton"

\* The cleanup call owed to the cached instance of the key, and the places
\* where it occurs in a sequence of calls.
CallFor(key) ==
    Call(RecordUnder(key[1], key[2]).cleanup, RecordUnder(key[1], key[2]).instance)

PlacesOf(key, calls) ==
    {k \in 1..Len(calls) :
        /\ RecordUnder(key[1], key[2]).instance # PyNone
        /\ calls[k] = CallFor(key)}

(* C15 (as claimed): a shutdown calls the cleanup of a record exactly once  *)
(* when an instance was constructed and cached for it by a resolve since    *)
(* the last shutdown, and not at all otherwise (never resolved, or already  *)
(* cleaned up by an earlier shutdown).                                      *)
C15_CleanupOncePerConstructedInstance ==
    [][ ShutdownStep =>
          \A key \in KeysWithCleanup :
              Runnable(result'.op, key) =>
                  Cardinality(PlacesOf(key, NewCalls)) =
                      IF ResolvedSinceShutdown(key) THEN 1 ELSE 0 ]_vars

(* C16 (as claimed): of two instances constructed since the last shutdown,  *)
(* the one constructed later has its cleanup called first.                  *)
C16_CleanupInReverseConstructionOrder ==
    [][ ShutdownStep =>
          \A i, j \in 1..Len(dispatched) :
              ( /\ i < j
                /\ ResolvedSinceShutdown(dispatched[i])
                /\ ResolvedSinceShutdown(dispatched[j])
                /\ Runnable(result'.op, dispatched[i])
                /\ Runnable(result'.op, dispatched[j]) )
              => \E a \in PlacesOf(dispatched[j], NewCalls) :
                     \E b \in PlacesOf(dispatched[i], NewCalls) : a < b ]_vars

(* C17 (as claimed): a shutdown calls the cleanup of every record, default  *)
(* or named, that has a cleanup callback and for which a resolve has        *)
(* constructed and cached an instance, and every cleanup call it makes is   *)
(* the call cleanup(instance) of a record that has both.                    *)
C17_CleanupExactlyForRealizedRecords ==
    [][ ShutdownStep =>
          /\ \A key \in KeysWithCleanup :
                 (ResolvedSinceShutdown(key) /\ Runnable(result'.op, key))
                 => PlacesOf(key, NewCalls) # {}
          /\ \A k \in 1..Len(NewCalls) :
                 \E key \in KeysWithCleanup : k \in PlacesOf(key, NewCalls) ]_vars

\* The keys whose cleanup the shutdown method op owes a call (per C17), those
\* among them whose cleanup raises, and those it has to refuse.
OwedCleanup(op) ==
    {key \in KeysWithCleanup : ResolvedSinceShutdown(key) /\ Runnable(op, key)}

FailingCleanup(op) ==
    {key \in OwedCleanup(op) : RecordUnder(key[1], key[2]).cleanup.raises}

RefusedCleanup(op) ==
    {key \in KeysWithCleanup : ResolvedSinceShutdown(key) /\ ~Runnable(op, key)}

(* C18 (as claimed): when cleanups raise during a shutdown, every owed       *)
(* cleanup is still called and the shutdown raises one aggregated error     *)
(* with one entry per failed cleanup; when none raises (and none is         *)
(* refused) the shutdown returns normally.                                  *)
C18_ShutdownAggregatesCleanupFailures ==
    [][ ShutdownStep =>
          /\ FailingCleanup(result'.op) # {} =>
                 /\ \A key \in OwedCleanup(result'.op) :
                        PlacesOf(key, NewCalls) # {}
                 /\ result'.status = "raised"
                 /\ result'.exc.cls = "DiCallableError"
                 /\ Len(result'.exc.errors) =
                        Cardinality(FailingCleanup(result'.op))
                        + Cardinality(RefusedCleanup(result'.op))
          /\ (FailingCleanup(result'.op) = {} /\ RefusedCleanup(result'.op) = {})
                 => result'.status = "returned" ]_vars

(* C19 (as claimed): shutdown_resources() on a realized record whose        *)
(* cleanup is a coroutine function raises and does not call that cleanup;   *)
(* async_shutdown_resources() on a realized record with a plain cleanup     *)
(* calls it, and raises nothing when no cleanup fails.                      *)
C19_SyncShutdownRefusesAsyncCleanup ==
    [][ ShutdownStep =>
          /\ \A key \in RefusedCleanup(result'.op) :
                 /\ result'.status = "raised"
                 /\ result'.exc.cls = "DiCallableError"
                 /\ \A k \in 1..Len(NewCalls) :
                        NewCalls[k].cleanup # RecordUnder(key[1], key[2]).cleanup
          /\ result'.op = "async_shutdown_resources" =>
                 /\ \A key \in OwedCleanup(result'.op) :
                        PlacesOf(key, NewCalls) # {}
                 /\ FailingCleanup(result'.op) = {} => result'.status = "returned"
        ]_vars

(* C20 (as claimed): a resolve of a registered key whose factory declares   *)
(* only optional parameters without default value succeeds when the type    *)
(* of each of them either has no registration at all (null is passed) or    *)
(* has a default registration of a class without parameters (the instance   *)
(* resolved from it is passed).                                             *)
C20_OptionalParameterResolves ==
    ( /\ ResolveFinished
      /\ KeyRegistered(result.interface, result.name)
      /\ LET params == Params(RecordUnder(result.interface, result.name).factory)
         IN /\ params # <<>>
            /\ \A k \in 1..Len(params) :
                   /\ params[k].hint.kind \in {"pipe", "Optional"}
                   /\ \/ NoRegistrationAtAll(params[k].hint.target)
                      \/ /\ KeyRegistered(params[k].hint.target, NoName)
                         /\ Params(RecordUnder(params[k].hint.target,
                                               NoName).factory) = <<>> )
    => /\ result.status = "returned"
       /\ result.value # PyNone

---------------------------------------------------------------------------
\* The parameters the factory of the resolved key declares.
ResolvedParams == Params(RecordUnder(result.interface, result.name).factory)

(* C21 (as claimed): a resolve of a registered key whose first parameter is  *)
(* a plain class without any registration receives the parameter's default  *)
(* value when it declares one, and otherwise raises ResolutionError with    *)
(* the text 'Cannot resolve parameter'.                                     *)
C21_UnsatisfiableParameterRaisesResolutionError ==
    ( /\ ResolveFinished
      /\ KeyRegistered(result.interface, result.name)
      /\ ResolvedParams # <<>>
      /\ ResolvedParams[1].hint.kind = "class"
      /\ NoRegistrationAtAll(ResolvedParams[1].hint.target) )
    => IF ResolvedParams[1].has_default
       THEN result.status = "returned"
       ELSE /\ result.status = "raised"
            /\ result.exc.cls = "DiResolutionError"
            /\ Contains(result.exc.msg, "Cannot resolve parameter ")

\* The resolved key's factory declares parameters, every one a plain class, and
\* all that it reaches has a default registration and no cycle.
ResolvedWithSatisfiableParams ==
    /\ ResolveFinished
    /\ KeyRegistered(result.interface, result.name)
    /\ ResolvedParams # <<>>
    /\ \A k \in 1..Len(ResolvedParams) : ResolvedParams[k].hint.kind = "class"
    /\ Reachable(result.interface) \subseteq DefaultRegistered
    /\ \A t \in Reachable(result.interface) \cup {result.interface} :
           t \notin Reachable(t)

(* C22 (as claimed): the factory of a resolved key is invoked after all of   *)
(* its dependencies: when the resolve of a key with satisfiable parameters  *)
(* has finished it has returned an instance of the key's factory, and every *)
(* dependency registered as singleton has been constructed and cached by    *)
(* then.                                                                    *)
C22_DependenciesResolvedBeforeDependent ==
    ResolvedWithSatisfiableParams =>
        /\ result.status = "returned"
        /\ result.value # PyNone
        /\ \A k \in 1..Len(ResolvedParams) :
               LET dep == RecordUnder(ResolvedParams[k].hint.target, NoName)
               IN dep.lifetime = "singleton" => dep.instance # PyNone

(* C23 (as claimed): no raw exception escapes the container: a resolve of a  *)
(* registered key whose factory takes no parameters, where nothing but the  *)
(* factory itself can fail, either returns or raises CallableError.         *)
C23_FactoryFailureSurfacesAsCallableError ==
    ( /\ ResolveFinished
      /\ KeyRegistered(result.interface, result.name)
      /\ ResolvedParams = <<>> )
    => \/ result.status = "returned"
       \/ /\ result.status = "raised"
          /\ result.exc.cls = "DiCallableError"

\* The record the last resolve asked for.
ResolvedRecord == RecordUnder(result.interface, result.name)

\* The records the registry holds, over all interfaces and names.
RecordCount ==
    Cardinality({k \in 1..Len(registry) : registry[k].regs.default # PyNone})
    + Cardinality(UNION {{<<k, m>> : m \in 1..Len(registry[k].regs.named)} :
                            k \in 1..Len(registry)})

(* C24 (as claimed): a resolve that follows a registration under an          *)
(* existing key (more registrations were made than records are held) is     *)
(* built from the record now held under the key: it returns the instance    *)
(* supplied with that record, or one constructed by that record's factory   *)
(* (and cached in it when the record is a singleton).                       *)
C24_ResolveAfterOverwriteUsesNewRecord ==
    ( /\ ResolveFinished
      /\ KeyRegistered(result.interface, result.name)
      /\ RecordCount < nregs
      /\ ResolvedParams = <<>> )
    => /\ result.status = "returned"
       /\ result.value # PyNone
       /\ ResolvedRecord.lifetime = "singleton" =>
              result.value = ResolvedRecord.instance

(* C25 (as claimed): a resolve of a key registered by register_instance      *)
(* returns exactly the instance that was supplied, whatever clear_scoped    *)
(* calls came in between.                                                   *)
C25_RegisteredInstanceIsReturned ==
    ( /\ ResolveFinished
      /\ KeyRegistered(result.interface, result.name)
      /\ ResolvedRecord.factory = "lambda" )
    => /\ result.status = "returned"
       /\ result.value \in {Obj(id) : id \in ExtObjs}
       /\ result.value = ResolvedRecord.instance

(* C26 (as claimed): an async_resolve of a key with satisfiable parameters,  *)
(* or with none, returns the constructed instance and never a pending       *)
(* awaitable.                                                               *)
C26_AsyncResolveReturnsConstructedInstance ==
    ( /\ ResolveFinished
      /\ result.op = "async_resolve"
      /\ KeyRegistered(result.interface, result.name)
      /\ ResolvedParams = <<>> \/ ResolvedWithSatisfiableParams )
    => /\ result.status = "returned"
       /\ result.value # PyNone
       /\ result.value.cls # "coroutine"

(* C27 (as claimed): when every parameter of the resolved key is optional    *)
(* and its type is in the registry but cannot be resolved (it has no        *)
(* default registration), resolve raises that ResolutionError, whereas      *)
(* async_resolve swallows it and returns the instance built with the        *)
(* absent value.                                                            *)
C27_AsyncSwallowsFailedOptionalDependency ==
    ( /\ ResolveFinished
      /\ KeyRegistered(result.interface, result.name)
      /\ ResolvedParams # <<>>
      /\ \A k \in 1..Len(ResolvedParams) :
             /\ ResolvedParams[k].hint.kind \in {"pipe", "Optional"}
             /\ ~NoRegistrationAtAll(ResolvedParams[k].hint.target)
             /\ ~KeyRegistered(ResolvedParams[k].hint.target, NoName) )
    => IF result.op = "resolve"
       THEN /\ result.status = "raised"
            /\ result.exc.cls = "DiResolutionError"
       ELSE /\ result.status = "returned"
            /\ result.value # PyNone

ValidateErrors ==
    IF result.status = "raised" /\ result.exc.cls = "DiValidationError"
    THEN result.exc.errors ELSE <<>>

\* A key repeats along a dependency path that starts at t.
OnACycle(t) == \E u \in Reachable(t) \cup {t} : u \in Reachable(u)

(* C30: validate() reports a circular dependency for an interface only if   *)
(* a key repeats along one dependency path from it; an interface whose      *)
(* dependency is reached through two of its parameters is not reported.     *)
C30_CycleReportedOnlyAlongOnePath ==
    ValidateFinished =>
        \A k \in 1..Len(ValidateErrors) :
            ValidateErrors[k].exc.cls = "DiCircularDependencyError"
                => OnACycle(ValidateErrors[k].interface)

\* validate() has walked Pair, whose two parameters both lead to the
\* registered Config, and reported nothing.
C30_Witness ==
    /\ ValidateFinished
    /\ result.status = "returned"
    /\ KeyRegistered("Pair", NoName)
    /\ KeyRegistered("Config", NoName)

(* C31 (as claimed): a CircularDependencyError that validate() reports for   *)
(* an interface carries the chain of keys from that interface down to the   *)
(* key found again; for CircularA <-> CircularB the entry of CircularA      *)
(* reads CircularA(default) -> CircularB(default) -> CircularA(default).    *)
C31_ValidateCycleCarriesFullChain ==
    ValidateFinished =>
        \A k \in 1..Len(ValidateErrors) :
            ValidateErrors[k].exc.cls = "DiCircularDependencyError" =>
                LET chain == ValidateErrors[k].exc.chain
                    root == ValidateErrors[k].interface
                IN /\ Len(chain) >= 2
                   /\ chain[1] = KeyText(<<root, NoName>>)
                   /\ chain[Len(chain)].type \in Reachable(root)
                   /\ root = "CircularA" =>
                          chain = <<KeyText(<<"CircularA", NoName>>),
                                    KeyText(<<"CircularB", NoName>>),
                                    KeyText(<<"CircularA", NoName>>)>>

\* The last call was a finished resolve or async_resolve of a registered key
\* that has a cleanup callback and the given lifetime, so that per C1 / C3 the
\* key holds a cached instance now.
JustResolvedWithCleanup(lifetime) ==
    /\ ResolveFinished
    /\ KeyRegistered(result.interface, result.name)
    /\ ResolvedRecord.lifetime = lifetime
    /\ ResolvedRecord.cleanup # PyNone

(* C32 (as claimed): a shutdown that follows the resolve of a scoped key     *)
(* with a cleanup callback (nothing came in between, so the instance is     *)
(* cached in the current scope) calls that cleanup, when the shutdown       *)
(* method can run it.                                                       *)
C32_ShutdownCleansScopedInstance ==
    [][ ( /\ ShutdownStep
          /\ JustResolvedWithCleanup("scoped")
          /\ Runnable(result'.op, <<result.interface, result.name>>) )
        => \E k \in 1..Len(NewCalls) :
               NewCalls[k].cleanup = ResolvedRecord.cleanup ]_vars

(* C33 (as claimed): a shutdown that follows the resolve of a singleton key  *)
(* with a cleanup callback calls that cleanup and destroys the cached       *)
(* instance: the slot of the record is empty afterwards.                    *)
C33_ShutdownClearsTheInstanceSlot ==
    [][ \A key \in Types \X RegNames :
          ( /\ ShutdownStep
            /\ JustResolvedWithCleanup("singleton")
            /\ key = <<result.interface, result.name>>
            /\ Runnable(result'.op, key) )
          => /\ \E k \in 1..Len(NewCalls) :
                    NewCalls[k].cleanup = RecordUnder(key[1], key[2]).cleanup
             /\ RecordUnder(key[1], key[2])'.instance = PyNone ]_vars

\* A register or register_instance call returns in this step.
RegisterStep == pc = "idle" /\ result'.op \in {"register", "register_instance"}

RegisteredKeys == {key \in Types \X RegNames : KeyRegistered(key[1], key[2])}

(* C36: every resolve and async_resolve call that has begun returns or      *)
(* raises, whatever the registry holds, cycles included; the resolution     *)
(* stack never holds a key twice, nor more entries than there are           *)
(* registered keys; and validate() is a call that completes in every state  *)
(* where the container is idle.                                             *)
C36_ResolveAndValidateTerminate ==
    /\ (pc # "idle") ~> (pc = "idle")
    /\ [](/\ \A j, k \in 1..Len(resolution_stack) :
                 resolution_stack[j] = resolution_stack[k] => j = k
          /\ Len(resolution_stack) <= Cardinality(RegisteredKeys))
    /\ [](pc = "idle" => ENABLED Validate)

\* A resolve of CircularA has finished on a registry where CircularA and
\* CircularB, which need each other, are both registered.
C36_Witness ==
    /\ ResolveFinished
    /\ result.interface = "CircularA"
    /\ {"CircularA", "CircularB"} \subseteq DefaultRegistered
    /\ resolution_stack = <<>>

(* C35 (as claimed): a resolve that raises ResolutionError or               *)
(* CircularDependencyError leaves the singleton slot of its key and the     *)
(* scoped map without an instance, and a resolve of a registered key for    *)
(* which no cause of failure is left (all that it reaches is registered     *)
(* and free of cycles) constructs it, whatever resolves failed before.      *)
C35_FailedResolveCachesNothing ==
    ResolveFinished =>
        /\ ( /\ result.status = "raised"
             /\ result.exc.cls \in {"DiResolutionError",
                                    "DiCircularDependencyError"}
             /\ KeyRegistered(result.interface, result.name) )
           => /\ ResolvedRecord.instance = PyNone
              /\ scoped_instances = <<>>
        /\ ( /\ KeyRegistered(result.interface, result.name)
             /\ Reachable(result.interface) \subseteq DefaultRegistered
             /\ \A t \in Reachable(result.interface) \cup {result.interface} :
                    t \notin Reachable(t) )
           => /\ result.status = "returned"
              /\ ResolvedRecord.lifetime = "singleton" =>
                     ResolvedRecord.instance = result.value

\* validate() on the registry as it is reports the interface t: its
\* DiValidationError holds an entry for t.
ReportedByValidate(t) ==
    LET outcome == ValidateOutcome(registry) IN
    /\ outcome.status = "raised"
    /\ outcome.exc.cls = "DiValidationError"
    /\ \E k \in 1..Len(outcome.exc.errors) : outcome.exc.errors[k].interface = t

(* C37 (as claimed): validate() and resolve() agree on the default          *)
(* registrations.  When resolve(X) of a default-registered X has finished,  *)
(* validate() on the same registry either returns or raises its             *)
(* DiValidationError, and it reports X exactly when the resolve raised      *)
(* DiResolutionError or DiCircularDependencyError.                          *)
C37_ValidateAgreesWithResolve ==
    ( /\ ResolveFinished
      /\ result.op = "resolve"
      /\ result.name = NoName
      /\ result.interface \in DefaultRegistered )
    => /\ ValidateOutcome(registry).status = "raised"
              => ValidateOutcome(registry).exc.cls = "DiValidationError"
       /\ ReportedByValidate(result.interface)
              <=> ( /\ result.status = "raised"
                    /\ result.exc.cls \in {"DiResolutionError",
                                           "DiCircularDependencyError"} )

\* The last call was a resolve through the ScopedStrategy.
StrategyResolved == pc = "idle" /\ result.op \in StrategyOps

(* C38 (as claimed): the instance a ScopedStrategy returns for a record     *)
(* was constructed for the key of that record and by that record, not by    *)
(* one that has been replaced.                                              *)
C38_ScopedCacheKeyedByRegistration ==
    StrategyResolved =>
        /\ result.value.made_for = <<result.interface, result.name>>
        /\ \E r \in records : /\ r.key = <<result.interface, result.name>>
                               /\ result.value.made_by = r.serial

ProviderResolveOps == {"Resource.resolve", "Resource.async_resolve"}

ProviderShutdownOps == {"Resource.shutdown", "Resource.async_shutdown"}

\* A shutdown or async_shutdown call of the Resource ends in this step and
\* was not refused as a sync call on a coroutine cleanup.
ProviderShutdownRan ==
    /\ result'.op \in ProviderShutdownOps
    /\ result'.status = "raised" => result'.exc.cls # "TypeError"

(* C39 (as claimed): for a singleton Resource, get() raises                 *)
(* DiUninitializedResourceError exactly while the resource is not resolved: *)
(* before the first resolve that returns and after every shutdown; a        *)
(* resolve that returns leaves is_resolved() true and returns the value     *)
(* get() returns, without calling the initializer when the resource was     *)
(* resolved already; after a shutdown is_resolved() is false, the value is  *)
(* gone and the next resolve calls the initializer.                         *)
C39_SingletonResourceLifecycle ==
    [][ (provider.cls = "Resource" /\ provider.singleton) =>
          /\ ProviderShutdownRan => (~resolved' /\ resource' = Unset)
          /\ (result'.op \in ProviderResolveOps /\ result'.status = "returned")
                => /\ resolved'
                   /\ result'.value = resource'
                   /\ resolved => (resource' = resource /\ init_calls' = init_calls)
                   /\ ~resolved => init_calls' = init_calls + 1
          /\ result'.op = "Resource.get"
                => /\ result'.status = "raised" <=> ~resolved
                   /\ result'.status = "raised"
                         => result'.exc.cls = "DiUninitializedResourceError"
                   /\ result'.status = "returned" => result'.value = resource
          /\ (resolved' /\ ~resolved)
                => (result'.op \in ProviderResolveOps /\ result'.status = "returned")
      ]_vars

(* C40 (as claimed): for a Resource with a cleanup callback, a call in      *)
(* which the initializer or the cleanup raises ends in DiCallableError,     *)
(* and the cleanup is called at most once per initialized value: no value   *)
(* is handed to the cleanup by two shutdown calls.                          *)
C40_ResourceCleanupAtMostOnce ==
    (provider.cls = "Resource" /\ provider.cleanup_func # PyNone) =>
        /\ (result.op \in ProviderResolveOps \cup ProviderShutdownOps
              /\ result.status = "raised")
               => result.exc.cls \in {"DiCallableError", "TypeError"}
        /\ \A j, k \in 1..Len(cleanup_calls) :
               cleanup_calls[j].instance = cleanup_calls[k].instance => j = k

====
